---- MODULE Spec2Model ----
(***************************************************************************)
(* State-machine model of src/main.py: the MQTT vending controller.        *)
(* One process runs main(): startup, then the polling loop that calls      *)
(* client.check_msg() (which dispatches at most one inbound message to     *)
(* sub_cb) followed by publish_health_status().  sub_cb routes a command   *)
(* to the reset, OTA update (perform_ota_update) or pulse handler.         *)
(*                                                                         *)
(* The environment is chosen with \E at each external call: the broker     *)
(* session (connect / subscribe / check_msg / publish may raise OSError),  *)
(* the HTTP fetch, the rename primitive, the output pin and the clock.     *)
(* `log' records, for the current loop iteration, every outbound publish   *)
(* attempt, every pin drive, every file operation and the reboot.          *)
(***************************************************************************)
EXTENDS Integers, Sequences, FiniteSets, TLC

VARIABLES
    pc,                 \* control location of the single thread
    connected,          \* the broker session is established
    subscribed,         \* the session holds a subscription to the command-in topic
    clock,              \* last value returned by time.time()
    last_health_check,  \* global last_health_check
    current_time,       \* local current_time of publish_health_status
    hb_failed,          \* the latest due heartbeat failed (prepare or publish)
    msg,                \* inbound message being / last dispatched in this iteration
    num_pulses,         \* local num_pulses of sub_cb
    action_status,      \* local action_status of sub_cb
    error_detail,       \* local error_detail of sub_cb
    i,                  \* loop index of the pulse loop
    pin,                \* level of the FLASH_PIN output
    staging,            \* content of main_next.py
    backup,             \* content of main_old.py
    live,               \* content of main.py
    live0,              \* content of main.py when the current update attempt began
    fetched,            \* number of bodies downloaded so far
    ncmds,              \* number of inbound messages dispatched so far
    reconnects,         \* number of successful reconnect cycles
    exc,                \* message of the exception caught by sub_cb's outer handlers
    response,           \* outcome of urequests.get / response.content in this update
    last_emit,          \* clock reading of the latest delivered health message (startup at first)
    log                 \* events of the current loop iteration

session == <<connected, subscribed, reconnects>>
heartbeat == <<clock, last_health_check, current_time, hb_failed, last_emit>>
locals == <<num_pulses, action_status, error_detail, i, exc, response>>
files == <<staging, backup, live, live0, fetched>>

vars == <<pc, session, heartbeat, msg, locals, pin, files, ncmds, log>>

----------------------------------------------------------------------------
(* Bounds of the model *)

MaxPulses == 2      \* largest pulses value in a command
MaxCmds == 2        \* inbound messages dispatched in one run
MaxTime == 90       \* largest clock reading
MaxReconnects == 1  \* successful reconnect cycles that are counted
TimeStep == 30      \* granularity of the clock readings

(* Program constants *)

HEALTH_CHECK_INTERVAL == 60

----------------------------------------------------------------------------
(* Values *)

NoneVal == "<None>"         \* Python None / absent key
NoFile == -1                \* the path does not exist
EmptyFile == 0              \* a zero-length file
BootLive == 1               \* content of main.py at boot
BootBackup == 2             \* content of main_old.py at boot
NewContent(n) == 10 + n     \* content of the n-th downloaded body

Ev(ch, status, id, ok, req, reqnone, gen, err) ==
    [ch |-> ch, status |-> status, id |-> id, ok |-> ok,
     req |-> req, reqnone |-> reqnone, gen |-> gen, err |-> err]

PubEv(ch, status, id, ok) == Ev(ch, status, id, ok, 0, TRUE, 0, "")
PinEv(what, ok) == Ev("pin", what, NoneVal, ok, 0, TRUE, 0, "")
FsEv(what, ok) == Ev("fs", what, NoneVal, ok, 0, TRUE, 0, "")
RebootEv == Ev("reboot", "reset", NoneVal, TRUE, 0, TRUE, 0, "")

(* The raw value under the "pulses" key of a decoded object. *)
PulsesRaw ==
    {[t |-> "absent", v |-> 0], [t |-> "null", v |-> 0], [t |-> "text", v |-> 0]}
    \cup {[t |-> "int", v |-> n] : n \in (-1)..MaxPulses}

Env(a, q, p, u) ==
    [topic |-> "trigger", kind |-> "object", action |-> a, qrcode_id |-> q,
     pulses |-> p, url |-> u]

QrIds == {NoneVal, "", "Q1"}
Urls == {NoneVal, "", "http://x/y"}

Envelopes ==
    {Env(a, q, p, NoneVal) : a \in {NoneVal, "other"}, q \in QrIds, p \in PulsesRaw}
    \cup {Env(a, NoneVal, [t |-> "absent", v |-> 0], u) :
             a \in {"reset", "update"}, u \in Urls}
    \cup {Env(a, "Q1", [t |-> "int", v |-> 1], u) :
             a \in {"reset", "update"}, u \in Urls}

Blank(topic, kind) ==
    [topic |-> topic, kind |-> kind, action |-> NoneVal, qrcode_id |-> NoneVal,
     pulses |-> [t |-> "absent", v |-> 0], url |-> NoneVal]

NoMsg == Blank("none", "none")

(* Every message the broker can deliver. *)
Inbound ==
    Envelopes
    \cup {Blank("trigger", k) : k \in {"bad_text", "bad_json", "non_object"}}
    \cup {Blank("other", "object"), Blank("other", "bad_text")}

(* int(payload_data.get('pulses', 0)) *)
IntOf(p) ==
    CASE p.t = "absent" -> [ok |-> TRUE, v |-> 0, exc |-> ""]
      [] p.t = "int"    -> [ok |-> TRUE, v |-> p.v, exc |-> ""]
      [] p.t = "text"   -> [ok |-> FALSE, v |-> 0, exc |-> "ValueError"]
      [] OTHER          -> [ok |-> FALSE, v |-> 0, exc |-> "TypeError"]

(* variant: only None is falsy *)
Truthy_OnlyNone(x) == x # NoneVal

(* Python truthiness of a decoded string-or-None value *)
Truthy(x) == x # NoneVal /\ x # ""

(* client.publish: raises when the session is down, may raise otherwise *)
PubOutcomes == IF connected THEN {TRUE, FALSE} ELSE {FALSE}

----------------------------------------------------------------------------
(* Startup: main() up to the polling loop *)

Init ==
    /\ pc = "load_config"
    /\ connected = FALSE
    /\ subscribed = FALSE
    /\ clock = 0
    /\ last_health_check = 0
    /\ current_time = 0
    /\ hb_failed = FALSE
    /\ msg = NoMsg
    /\ num_pulses = 0
    /\ action_status = "failure"
    /\ error_detail = ""
    /\ i = 0
    /\ pin = "off"
    /\ staging = NoFile
    /\ backup \in {NoFile, BootBackup}
    /\ live \in {NoFile, BootLive}
    /\ live0 = NoFile
    /\ fetched = 0
    /\ ncmds = 0
    /\ reconnects = 0
    /\ exc = ""
    /\ response = ""
    /\ last_emit = 0
    /\ log = <<>>

(* main(): config = load_config(); None -> sleep(10), machine.reset();
   otherwise last_health_check = time.time() *)
LoadConfig ==
    /\ pc = "load_config"
    /\ \E ok \in BOOLEAN :
          IF ok THEN /\ pc' = "indicate_reset"
                     /\ last_health_check' = clock
                     /\ last_emit' = clock
                     /\ log' = log
                ELSE /\ pc' = "rebooted"
                     /\ log' = Append(log, RebootEv)
                     /\ UNCHANGED <<last_health_check, last_emit>>
    /\ UNCHANGED <<session, clock, current_time, hb_failed, msg, locals, pin, files, ncmds>>

(* indicate_reset(): Pin(), on(), sleep(3), off(); any exception is caught *)
IndicateReset ==
    /\ pc = "indicate_reset"
    /\ \E r \in {"ok", "on_raises", "off_raises"} :
          pin' = IF r = "off_raises" THEN "on" ELSE "off"
    /\ pc' = "connect_wifi"
    /\ UNCHANGED <<session, heartbeat, msg, locals, files, ncmds, log>>

(* if not connect_wifi(config): return *)
ConnectWifi ==
    /\ pc = "connect_wifi"
    /\ \E ok \in BOOLEAN : pc' = IF ok THEN "mqtt_init" ELSE "returned"
    /\ UNCHANGED <<session, heartbeat, msg, locals, pin, files, ncmds, log>>

(* initial client.connect(); client.subscribe(); on error sleep(10), reset *)
InitialConnect ==
    /\ pc = "mqtt_init"
    /\ \E r \in {"ok", "connect_raises", "subscribe_raises"} :
          IF r = "ok"
          THEN /\ pc' = "poll"
               /\ connected' = TRUE
               /\ subscribed' = TRUE
               /\ log' = log
          ELSE /\ pc' = "rebooted"
               /\ connected' = (r = "subscribe_raises")
               /\ subscribed' = FALSE
               /\ log' = Append(log, RebootEv)
    /\ UNCHANGED <<reconnects, heartbeat, msg, locals, pin, files, ncmds>>

----------------------------------------------------------------------------
(* The polling loop of main() *)

(* variant: the heartbeat check also runs in an iteration whose poll raised *)
Poll_HeartbeatAfterError ==
    /\ pc = "poll"
    /\ log' = <<>>
    /\ \/ /\ pc' = "health"
          /\ connected' = FALSE
          /\ subscribed' = FALSE
          /\ msg' = NoMsg
          /\ UNCHANGED ncmds
       \/ /\ connected
          /\ pc' = "health"
          /\ msg' = NoMsg
          /\ UNCHANGED <<connected, subscribed, ncmds>>
       \/ /\ connected /\ subscribed
          /\ ncmds < MaxCmds
          /\ \E m \in Inbound :
                /\ msg' = m
                /\ pc' = "sub_cb"
          /\ ncmds' = ncmds + 1
          /\ UNCHANGED <<connected, subscribed>>
    \* the locals of the previous sub_cb call are gone
    /\ num_pulses' = 0 /\ action_status' = "failure" /\ error_detail' = ""
    /\ i' = 0 /\ exc' = "" /\ response' = "" /\ live0' = NoFile
    /\ UNCHANGED <<reconnects, heartbeat, pin, staging, backup, live, fetched>>

(* client.check_msg(): raises OSError, returns without a message, or hands
   one buffered message to sub_cb *)
Poll ==
    /\ pc = "poll"
    /\ log' = <<>>
    /\ \/ /\ pc' = "backoff"
          /\ connected' = FALSE
          /\ subscribed' = FALSE
          /\ msg' = NoMsg
          /\ UNCHANGED ncmds
       \/ /\ connected
          /\ pc' = "health"
          /\ msg' = NoMsg
          /\ UNCHANGED <<connected, subscribed, ncmds>>
       \/ /\ connected /\ subscribed
          /\ ncmds < MaxCmds
          /\ \E m \in Inbound :
                /\ msg' = m
                /\ pc' = "sub_cb"
          /\ ncmds' = ncmds + 1
          /\ UNCHANGED <<connected, subscribed>>
    \* the locals of the previous sub_cb call are gone
    /\ num_pulses' = 0 /\ action_status' = "failure" /\ error_detail' = ""
    /\ i' = 0 /\ exc' = "" /\ response' = "" /\ live0' = NoFile
    /\ UNCHANGED <<reconnects, heartbeat, pin, staging, backup, live, fetched>>

(* variant: the reconnect does not subscribe again *)
Reconnect_NoResubscribe ==
    /\ pc = "backoff"
    /\ \E r \in {"ok", "connect_raises"} :
          /\ connected' = (r # "connect_raises")
          /\ subscribed' = FALSE
          /\ reconnects' = IF r = "ok" /\ reconnects < MaxReconnects
                           THEN reconnects + 1 ELSE reconnects
    /\ pc' = "poll"
    /\ UNCHANGED <<heartbeat, msg, locals, pin, files, ncmds, log>>

(* except OSError: sleep(5); connect(); subscribe(); on failure sleep(10) *)
Reconnect ==
    /\ pc = "backoff"
    /\ \E r \in {"ok", "connect_raises", "subscribe_raises"} :
          /\ connected' = (r # "connect_raises")
          /\ subscribed' = (r = "ok")
          /\ reconnects' = IF r = "ok" /\ reconnects < MaxReconnects
                           THEN reconnects + 1 ELSE reconnects
    /\ pc' = "poll"
    /\ UNCHANGED <<heartbeat, msg, locals, pin, files, ncmds, log>>

(* except Exception: sleep(10); machine.reset() *)
LoopCrash ==
    /\ pc = "loop_exception"
    /\ pc' = "rebooted"
    /\ log' = Append(log, RebootEv)
    /\ UNCHANGED <<session, heartbeat, msg, locals, pin, files, ncmds>>

----------------------------------------------------------------------------
(* publish_health_status(client) *)

(* the clock readings the check can see: time never runs backwards *)
Readings == {t \in clock..MaxTime : (t - clock) % TimeStep = 0}

Due_Strict(now, last) == (now - last) > HEALTH_CHECK_INTERVAL
Due(now, last) == (now - last) >= HEALTH_CHECK_INTERVAL

(* current_time = time.time(); if (current_time - last_health_check) >= ... *)
HealthCheck ==
    /\ pc = "health"
    /\ \E now \in Readings :
          /\ clock' = now
          /\ current_time' = now
          /\ pc' = IF Due(now, last_health_check) THEN "health_prepare" ELSE "poll"
    /\ UNCHANGED <<session, last_health_check, last_emit, hb_failed, msg, locals, pin, files, ncmds, log>>

(* check_memory(), build and serialise the payload; on exception return *)
HealthPrepare ==
    /\ pc = "health_prepare"
    /\ \E ok \in BOOLEAN :
          IF ok THEN /\ pc' = "health_publish"
                     /\ UNCHANGED hb_failed
                ELSE /\ pc' = "poll"
                     /\ hb_failed' = TRUE
    /\ UNCHANGED <<session, clock, last_health_check, last_emit, current_time, msg, locals, pin, files, ncmds, log>>

(* variant: the timestamp advances whether or not the publish raised *)
HealthPublish_AlwaysAdvances ==
    /\ pc = "health_publish"
    /\ \E ok \in PubOutcomes :
          /\ log' = Append(log, PubEv("health", "healthy", NoneVal, ok))
          /\ last_health_check' = current_time
          /\ last_emit' = IF ok THEN clock ELSE last_emit
          /\ hb_failed' = ~ok
    /\ pc' = "poll"
    /\ UNCHANGED <<session, clock, current_time, msg, locals, pin, files, ncmds>>

(* client.publish(MQTT_TOPIC_HEALTH, ...); last_health_check = current_time
   only when the publish did not raise *)
HealthPublish ==
    /\ pc = "health_publish"
    /\ \E ok \in PubOutcomes :
          /\ log' = Append(log, PubEv("health", "healthy", NoneVal, ok))
          /\ last_health_check' = IF ok THEN current_time ELSE last_health_check
          /\ last_emit' = IF ok THEN clock ELSE last_emit
          /\ hb_failed' = ~ok
    /\ pc' = "poll"
    /\ UNCHANGED <<session, clock, current_time, msg, locals, pin, files, ncmds>>

----------------------------------------------------------------------------
(* sub_cb(topic, msg): decoding and routing *)

(* variant: the pulse handler is tried first when a qrcode_id is present *)
SubCb_PulseFirst ==
    /\ pc = "sub_cb"
    /\ IF msg.kind = "bad_text"
       THEN /\ pc' = "loop_exception"          \* UnicodeError leaves check_msg
            /\ UNCHANGED exc
       ELSE IF msg.topic # "trigger"
       THEN /\ pc' = "health"
            /\ UNCHANGED exc
       ELSE IF msg.kind = "bad_json"
       THEN /\ pc' = "payload_error"           \* ValueError from ujson.loads
            /\ exc' = "json"
       ELSE IF msg.kind = "non_object"
       THEN /\ pc' = "processing_error"        \* no .get on a non-dict
            /\ exc' = "no_get"
       ELSE /\ pc' = IF Truthy(msg.qrcode_id) THEN "pulse_entry"
                     ELSE CASE msg.action = "reset" -> "reset_publish"
                            [] msg.action = "update" ->
                                 IF Truthy(msg.url) THEN "ota_start"
                                                    ELSE "ota_missing_url"
                            [] OTHER -> "pulse_entry"
            /\ UNCHANGED exc
    /\ UNCHANGED <<session, heartbeat, msg, num_pulses, action_status,
                   error_detail, i, response, pin, files, ncmds, log>>

(* msg.decode() outside the try; topic test; ujson.loads; .get("action") *)
SubCb ==
    /\ pc = "sub_cb"
    /\ IF msg.kind = "bad_text"
       THEN /\ pc' = "loop_exception"          \* UnicodeError leaves check_msg
            /\ UNCHANGED exc
       ELSE IF msg.topic # "trigger"
       THEN /\ pc' = "health"
            /\ UNCHANGED exc
       ELSE IF msg.kind = "bad_json"
       THEN /\ pc' = "payload_error"           \* ValueError from ujson.loads
            /\ exc' = "json"
       ELSE IF msg.kind = "non_object"
       THEN /\ pc' = "processing_error"        \* no .get on a non-dict
            /\ exc' = "no_get"
       ELSE /\ pc' = CASE msg.action = "reset" -> "reset_publish"
                       [] msg.action = "update" ->
                            IF Truthy(msg.url) THEN "ota_start" ELSE "ota_missing_url"
                       [] OTHER -> "pulse_entry"
            /\ UNCHANGED exc
    /\ UNCHANGED <<session, heartbeat, msg, num_pulses, action_status,
                   error_detail, i, response, pin, files, ncmds, log>>

(* publish {"status": "resetting"}; the failure is only logged *)
ResetPublish ==
    /\ pc = "reset_publish"
    /\ \E ok \in PubOutcomes :
          log' = Append(log, PubEv("status", "resetting", NoneVal, ok))
    /\ pc' = "reset_reboot"
    /\ UNCHANGED <<session, heartbeat, msg, locals, pin, files, ncmds>>

(* variant: the reset handler returns to the loop instead of rebooting *)
ResetReboot_Returns ==
    /\ pc = "reset_reboot"
    /\ pc' = "health"
    /\ UNCHANGED <<session, heartbeat, msg, locals, pin, files, ncmds, log>>

(* machine.reset() *)
ResetReboot ==
    /\ pc = "reset_reboot"
    /\ pc' = "rebooted"
    /\ log' = Append(log, RebootEv)
    /\ UNCHANGED <<session, heartbeat, msg, locals, pin, files, ncmds>>

(* update without url: publish ota_error / missing_url and return *)
OtaMissingUrl ==
    /\ pc = "ota_missing_url"
    /\ \E ok \in PubOutcomes :
          log' = Append(log, Ev("status", "ota_error", NoneVal, ok, 0, TRUE, 0,
                                "missing_url"))
    /\ pc' = "health"
    /\ UNCHANGED <<session, heartbeat, msg, locals, pin, files, ncmds>>

(* except ValueError: publish payload_error with str(ve) *)
PayloadError ==
    /\ pc = "payload_error"
    /\ \E ok \in PubOutcomes :
          log' = Append(log, Ev("status", "payload_error", NoneVal, ok, 0, TRUE, 0,
                                exc))
    /\ pc' = "health"
    /\ UNCHANGED <<session, heartbeat, msg, locals, pin, files, ncmds>>

(* except Exception: publish processing_error with str(e) *)
ProcessingError ==
    /\ pc = "processing_error"
    /\ \E ok \in PubOutcomes :
          log' = Append(log, Ev("status", "processing_error", NoneVal, ok, 0, TRUE,
                                0, exc))
    /\ pc' = "health"
    /\ UNCHANGED <<session, heartbeat, msg, locals, pin, files, ncmds>>

----------------------------------------------------------------------------
(* sub_cb: the pulse branch *)

(* num_pulses = int(...); qrcode_id = ...; None check; num_pulses > 0 test *)
PulseEntry ==
    /\ pc = "pulse_entry"
    /\ LET n == IntOf(msg.pulses) IN
       IF ~n.ok
       THEN /\ pc' = IF n.exc = "ValueError" THEN "payload_error"
                                             ELSE "processing_error"
            /\ exc' = "int"
            /\ UNCHANGED <<num_pulses, action_status, error_detail>>
       ELSE /\ num_pulses' = n.v
            /\ IF msg.qrcode_id = NoneVal
               THEN /\ pc' = "payload_error"
                    /\ exc' = "missing_qrcode_id"
                    /\ action_status' = "failure"
                    /\ error_detail' = ""
               ELSE IF n.v > 0
               THEN /\ pc' = "pin_acquire"
                    /\ action_status' = "failure"
                    /\ error_detail' = ""
                    /\ UNCHANGED exc
               ELSE /\ pc' = "confirm"
                    /\ action_status' = "success"
                    /\ error_detail' = "No pulses requested"
                    /\ UNCHANGED exc
    /\ UNCHANGED <<session, heartbeat, msg, i, response, pin, files, ncmds, log>>

(* flash = machine.Pin(FLASH_PIN, machine.Pin.OUT), outside the inner try *)
PinAcquire ==
    /\ pc = "pin_acquire"
    /\ \E r \in {"ok", "ValueError", "Exception"} :
          /\ log' = Append(log, PinEv("acquire", r = "ok"))
          /\ pc' = CASE r = "ok" -> "pulse_on"
                     [] r = "ValueError" -> "payload_error"
                     [] OTHER -> "processing_error"
          /\ exc' = IF r = "ok" THEN exc ELSE "pin"
    /\ i' = 0
    /\ UNCHANGED <<session, heartbeat, msg, num_pulses, action_status,
                   error_detail, response, pin, files, ncmds>>

(* variant: the on-phase sleep services the broker and takes a message *)
PulseOn_PollsWhileSleeping ==
    /\ pc = "pulse_on"
    /\ \E ok \in BOOLEAN :
          /\ log' = Append(log, PinEv("on", ok))
          /\ IF ok
             THEN /\ pin' = "on"
                  /\ pc' = "pulse_off"
                  /\ UNCHANGED <<action_status, error_detail>>
             ELSE /\ pc' = "confirm"
                  /\ action_status' = "failure"
                  /\ error_detail' = "Error during pulse generation"
                  /\ UNCHANGED pin
    /\ IF ncmds < MaxCmds
       THEN (\E m \in Inbound : msg' = m) /\ ncmds' = ncmds + 1
       ELSE UNCHANGED <<msg, ncmds>>
    /\ UNCHANGED <<session, heartbeat, num_pulses, i, exc, response, files>>

(* flash.on(); time.sleep(0.2) *)
PulseOn ==
    /\ pc = "pulse_on"
    /\ \E ok \in BOOLEAN :
          /\ log' = Append(log, PinEv("on", ok))
          /\ IF ok
             THEN /\ pin' = "on"
                  /\ pc' = "pulse_off"
                  /\ UNCHANGED <<action_status, error_detail>>
             ELSE /\ pc' = "confirm"
                  /\ action_status' = "failure"
                  /\ error_detail' = "Error during pulse generation"
                  /\ UNCHANGED pin
    /\ UNCHANGED <<session, heartbeat, msg, num_pulses, i, exc, response, files, ncmds>>

(* variant: a drive error in flash.off() records no error detail *)
PulseOff_NoErrorDetail ==
    /\ pc = "pulse_off"
    /\ \E ok \in BOOLEAN :
          /\ log' = Append(log, PinEv("off", ok))
          /\ IF ok
             THEN /\ pin' = "off"
                  /\ i' = i + 1
                  /\ IF i + 1 < num_pulses
                     THEN /\ pc' = "pulse_on"
                          /\ UNCHANGED action_status
                     ELSE /\ pc' = "confirm"
                          /\ action_status' = "success"
                  /\ UNCHANGED error_detail
             ELSE /\ pc' = "confirm"
                  /\ action_status' = "failure"
                  /\ error_detail' = ""
                  /\ UNCHANGED <<pin, i>>
    /\ UNCHANGED <<session, heartbeat, msg, num_pulses, exc, response, files, ncmds>>

(* flash.off(); time.sleep(0.3); next i, or action_status = "success" *)
PulseOff ==
    /\ pc = "pulse_off"
    /\ \E ok \in BOOLEAN :
          /\ log' = Append(log, PinEv("off", ok))
          /\ IF ok
             THEN /\ pin' = "off"
                  /\ i' = i + 1
                  /\ IF i + 1 < num_pulses
                     THEN /\ pc' = "pulse_on"
                          /\ UNCHANGED action_status
                     ELSE /\ pc' = "confirm"
                          /\ action_status' = "success"
                  /\ UNCHANGED error_detail
             ELSE /\ pc' = "confirm"
                  /\ action_status' = "failure"
                  /\ error_detail' = "Error during pulse generation"
                  /\ UNCHANGED <<pin, i>>
    /\ UNCHANGED <<session, heartbeat, msg, num_pulses, exc, response, files, ncmds>>

(* variant: a confirm publish that raises is treated as a lost session *)
Confirm_Escalates ==
    /\ pc = "confirm"
    /\ IF Truthy(msg.qrcode_id)
       THEN \E ok \in PubOutcomes :
               /\ log' = Append(log, PubEv("confirm", action_status, msg.qrcode_id, ok))
               /\ pc' = IF ok THEN "device_status" ELSE "backoff"
       ELSE log' = log /\ pc' = "device_status"
    /\ UNCHANGED <<session, heartbeat, msg, locals, pin, files, ncmds>>

(* if qrcode_id: publish {"qrcode_id", "status"} to the confirm topic *)
Confirm ==
    /\ pc = "confirm"
    /\ IF Truthy(msg.qrcode_id)
       THEN \E ok \in PubOutcomes :
               log' = Append(log, PubEv("confirm", action_status, msg.qrcode_id, ok))
       ELSE log' = log
    /\ pc' = "device_status"
    /\ UNCHANGED <<session, heartbeat, msg, locals, pin, files, ncmds>>

(* variant: a failed confirm aborts the handler before the status record *)
DeviceStatus_AbortedByConfirm ==
    /\ pc = "device_status"
    /\ IF \E k \in DOMAIN log : log[k].ch = "confirm" /\ ~log[k].ok
       THEN log' = log
       ELSE \E ok \in PubOutcomes :
               log' = Append(log,
                        Ev("status", action_status, msg.qrcode_id, ok,
                           IF Truthy(msg.qrcode_id) THEN num_pulses ELSE 0,
                           ~Truthy(msg.qrcode_id),
                           IF action_status = "success" THEN num_pulses ELSE 0,
                           IF action_status = "failure" THEN error_detail ELSE ""))
    /\ pc' = "health"
    /\ UNCHANGED <<session, heartbeat, msg, locals, pin, files, ncmds>>

(* publish the device status record to the status topic *)
DeviceStatus ==
    /\ pc = "device_status"
    /\ \E ok \in PubOutcomes :
          log' = Append(log,
                   Ev("status", action_status, msg.qrcode_id, ok,
                      IF Truthy(msg.qrcode_id) THEN num_pulses ELSE 0,
                      ~Truthy(msg.qrcode_id),
                      IF action_status = "success" THEN num_pulses ELSE 0,
                      IF action_status = "failure" THEN error_detail ELSE ""))
    /\ pc' = "health"
    /\ UNCHANGED <<session, heartbeat, msg, locals, pin, files, ncmds>>

----------------------------------------------------------------------------
(* perform_ota_update(url) *)

(* variant: the attempt is abandoned when the ota_starting publish raises *)
OtaStart_AbortsOnFailure ==
    /\ pc = "ota_start"
    /\ \E ok \in PubOutcomes :
          /\ log' = Append(log, PubEv("status", "ota_starting", NoneVal, ok))
          /\ pc' = IF ok THEN "ota_download" ELSE "health"
    /\ live0' = live
    /\ UNCHANGED <<session, heartbeat, msg, locals, pin, staging, backup, live,
                   fetched, ncmds>>

(* publish ota_starting; the failure is only logged *)
OtaStart ==
    /\ pc = "ota_start"
    /\ \E ok \in PubOutcomes :
          log' = Append(log, PubEv("status", "ota_starting", NoneVal, ok))
    /\ live0' = live
    /\ pc' = "ota_download"
    /\ UNCHANGED <<session, heartbeat, msg, locals, pin, staging, backup, live,
                   fetched, ncmds>>

(* the outcomes of urequests.get(url) and of reading response.content *)
FetchOutcomes == {"get_raises", "non200", "read_raises", "empty", "body"}

(* uos.remove(path): the path is gone afterwards; raises OSError if absent *)
Removed(f) == NoFile

(* uos.stat(temp_script_path)[6] > 0 *)
SizeOk_Any(content) == TRUE
SizeOk(content) == content # EmptyFile

(* download, save to main_next.py, validate size > 0, clean up on failure *)
OtaDownload ==
    /\ pc = "ota_download"
    /\ \E r \in FetchOutcomes :
          /\ response' = r
          /\ CASE r \in {"body", "empty"} ->
                  \* status 200: open(temp, 'wb'); f.write(content); stat
                  LET content == IF r = "body" THEN NewContent(fetched)
                                               ELSE EmptyFile
                  IN  IF SizeOk(content)
                      THEN /\ staging' = content
                           /\ fetched' = fetched + 1
                           /\ log' = Append(log, FsEv("write_staging", TRUE))
                           /\ pc' = "ota_remove_backup"
                      ELSE \* uos.remove(temp_script_path)
                           /\ staging' = Removed(content)
                           /\ log' = Append(Append(log, FsEv("write_staging", TRUE)),
                                            FsEv("rm_staging", TRUE))
                           /\ pc' = "ota_download_failed"
                           /\ UNCHANGED fetched
            [] r = "read_raises" ->
                  \* the file is opened (truncated), then the handler removes it
                  /\ staging' = Removed(EmptyFile)
                  /\ log' = Append(log, FsEv("rm_staging", TRUE))
                  /\ pc' = "ota_download_failed"
                  /\ UNCHANGED fetched
            [] r = "get_raises" ->
                  \* except: uos.remove(temp), OSError ignored
                  /\ staging' = Removed(staging)
                  /\ log' = Append(log, FsEv("rm_staging", staging # NoFile))
                  /\ pc' = "ota_download_failed"
                  /\ UNCHANGED fetched
            [] OTHER ->
                  \* status_code != 200: response.close() only
                  /\ pc' = "ota_download_failed"
                  /\ UNCHANGED <<staging, fetched, log>>
    /\ UNCHANGED <<session, heartbeat, msg, num_pulses, action_status, error_detail,
                   i, exc, pin, backup, live, live0, ncmds>>

(* variant: a failed download forces a reboot *)
OtaDownloadFailed_Reboots ==
    /\ pc = "ota_download_failed"
    /\ \E ok \in PubOutcomes :
          log' = Append(Append(log, PubEv("status", "ota_download_failed", NoneVal, ok)),
                        RebootEv)
    /\ pc' = "rebooted"
    /\ UNCHANGED <<session, heartbeat, msg, locals, pin, files, ncmds>>

(* else branch: publish ota_download_failed and return *)
OtaDownloadFailed ==
    /\ pc = "ota_download_failed"
    /\ \E ok \in PubOutcomes :
          log' = Append(log, PubEv("status", "ota_download_failed", NoneVal, ok))
    /\ pc' = "health"
    /\ UNCHANGED <<session, heartbeat, msg, locals, pin, files, ncmds>>

(* try: uos.remove(old_script_path) except OSError: pass *)
OtaRemoveBackup ==
    /\ pc = "ota_remove_backup"
    /\ backup' = Removed(backup)
    /\ log' = Append(log, FsEv("rm_backup", backup # NoFile))
    /\ pc' = "ota_rename_live"
    /\ UNCHANGED <<session, heartbeat, msg, locals, pin, staging, live, live0,
                   fetched, ncmds>>

(* uos.rename(src, dst) can succeed only when src exists; it may also fail
   with an I/O error *)
RenameOutcomes(src) == IF src = NoFile THEN {FALSE} ELSE {TRUE, FALSE}

(* try: uos.rename(current_script_path, old_script_path)
   except OSError: continue anyway *)
OtaRenameLive ==
    /\ pc = "ota_rename_live"
    /\ \E ok \in RenameOutcomes(live) :
          /\ log' = Append(log, FsEv("mv_live_backup", ok))
          /\ IF ok THEN /\ backup' = live
                        /\ live' = NoFile
                   ELSE UNCHANGED <<backup, live>>
    /\ pc' = "ota_rename_staging"
    /\ UNCHANGED <<session, heartbeat, msg, locals, pin, staging, live0, fetched,
                   ncmds>>

(* variant: an error of the second rename is swallowed like the first *)
OtaRenameStaging_ContinuesAnyway ==
    /\ pc = "ota_rename_staging"
    /\ \E ok \in RenameOutcomes(staging) :
          /\ log' = Append(log, FsEv("mv_staging_live", ok))
          /\ IF ok THEN /\ live' = staging
                        /\ staging' = NoFile
                   ELSE UNCHANGED <<live, staging>>
    /\ pc' = "ota_publish_success"
    /\ UNCHANGED <<session, heartbeat, msg, locals, pin, backup, live0, fetched,
                   ncmds>>

(* uos.rename(temp_script_path, current_script_path); an error goes to the
   finalize handler *)
OtaRenameStaging ==
    /\ pc = "ota_rename_staging"
    /\ \E ok \in RenameOutcomes(staging) :
          /\ log' = Append(log, FsEv("mv_staging_live", ok))
          /\ IF ok THEN /\ live' = staging
                        /\ staging' = NoFile
                        /\ pc' = "ota_publish_success"
                        /\ UNCHANGED exc
                   ELSE /\ pc' = "ota_finalize_failed"
                        /\ exc' = "rename"
                        /\ UNCHANGED <<live, staging>>
    /\ UNCHANGED <<session, heartbeat, msg, num_pulses, action_status,
                   error_detail, i, response, pin, backup, live0, fetched, ncmds>>

(* variant: the success status is never published *)
OtaPublishSuccess_Skipped ==
    /\ pc = "ota_publish_success"
    /\ pc' = "ota_reboot"
    /\ UNCHANGED <<session, heartbeat, msg, locals, pin, files, ncmds, log>>

(* publish ota_success_rebooting; the failure is only logged *)
OtaPublishSuccess ==
    /\ pc = "ota_publish_success"
    /\ \E ok \in PubOutcomes :
          log' = Append(log, PubEv("status", "ota_success_rebooting", NoneVal, ok))
    /\ pc' = "ota_reboot"
    /\ UNCHANGED <<session, heartbeat, msg, locals, pin, files, ncmds>>

(* time.sleep(2); machine.reset() *)
OtaReboot ==
    /\ pc = "ota_reboot"
    /\ pc' = "rebooted"
    /\ log' = Append(log, RebootEv)
    /\ UNCHANGED <<session, heartbeat, msg, locals, pin, files, ncmds>>

(* variant: the finalize handler restores main.py from the backup *)
OtaFinalizeFailed_RollsBack ==
    /\ pc = "ota_finalize_failed"
    /\ \E ok \in PubOutcomes :
          log' = Append(log, Ev("status", "ota_finalize_failed", NoneVal, ok, 0,
                                TRUE, 0, exc))
    /\ IF live = NoFile /\ backup # NoFile
       THEN live' = backup /\ backup' = NoFile
       ELSE UNCHANGED <<live, backup>>
    /\ pc' = "health"
    /\ UNCHANGED <<session, heartbeat, msg, locals, pin, staging, live0, fetched,
                   ncmds>>

(* except Exception: publish ota_finalize_failed with str(e) and return *)
OtaFinalizeFailed ==
    /\ pc = "ota_finalize_failed"
    /\ \E ok \in PubOutcomes :
          log' = Append(log, Ev("status", "ota_finalize_failed", NoneVal, ok, 0,
                                TRUE, 0, exc))
    /\ pc' = "health"
    /\ UNCHANGED <<session, heartbeat, msg, locals, pin, files, ncmds>>

----------------------------------------------------------------------------

Next ==
    \/ LoadConfig \/ IndicateReset \/ ConnectWifi \/ InitialConnect
    \/ Poll \/ Reconnect \/ LoopCrash
    \/ HealthCheck \/ HealthPrepare \/ HealthPublish
    \/ SubCb \/ ResetPublish \/ ResetReboot \/ OtaMissingUrl
    \/ PayloadError \/ ProcessingError
    \/ PulseEntry \/ PinAcquire \/ PulseOn \/ PulseOff \/ Confirm \/ DeviceStatus
    \/ OtaStart \/ OtaDownload \/ OtaDownloadFailed \/ OtaRemoveBackup
    \/ OtaRenameLive \/ OtaRenameStaging \/ OtaPublishSuccess \/ OtaReboot
    \/ OtaFinalizeFailed

Spec == Init /\ [][Next]_vars

TypeOK ==
    /\ connected \in BOOLEAN /\ subscribed \in BOOLEAN
    /\ clock \in 0..(MaxTime + TimeStep) /\ last_health_check \in 0..(MaxTime + TimeStep)
    /\ pin \in {"on", "off"}
    /\ action_status \in {"success", "failure"}
    /\ ncmds \in 0..MaxCmds
    /\ msg \in Inbound \cup {NoMsg}

----------------------------------------------------------------------------
(* Vocabulary of the properties *)

(* positions in the log of the events on one channel *)
Idx(ch) == {k \in DOMAIN log : log[k].ch = ch}

IsStatusEv(e) == e.ch = "status"

(* the status fields of the status-out publish attempts, in order *)
StatusSeq ==
    LET s == SelectSeq(log, IsStatusEv) IN [k \in DOMAIN s |-> s[k].status]

(* the on/off cycles that completed, and the drive calls that raised *)
CyclesDone == Cardinality({k \in Idx("pin") : log[k].status = "off" /\ log[k].ok})
DriveRaised == \E k \in Idx("pin") : ~log[k].ok

(* sub_cb has returned to check_msg for the message in msg *)
Returned == pc \in {"health", "health_prepare", "health_publish", "poll", "backoff"}

IsObject(m) == m.topic = "trigger" /\ m.kind = "object"
IsReset(m) == IsObject(m) /\ m.action = "reset"
IsUpdate(m) == IsObject(m) /\ m.action = "update"
IsPulse(m) == IsObject(m) /\ m.action \notin {"reset", "update"}

----------------------------------------------------------------------------
(* C1: a pulse command with a non-empty qrcode_id and integer pulses N > 0
   gets exactly one confirm-out publish attempt, with its qrcode_id, whose
   status is "success" iff all N on/off cycles completed without a drive
   error -- whatever the actuation outcome, pin acquisition included. *)
C1_ExactlyOneConfirm ==
    (Returned /\ IsPulse(msg) /\ Truthy(msg.qrcode_id)
       /\ msg.pulses.t = "int" /\ msg.pulses.v > 0)
    => /\ Cardinality(Idx("confirm")) = 1
       /\ \A k \in Idx("confirm") :
             /\ log[k].id = msg.qrcode_id
             /\ (log[k].status = "success")
                   <=> (CyclesDone = msg.pulses.v /\ ~DriveRaised)

(* C2: a command that is not reset/update and has no qrcode_id never
   produces a confirm-out publish and never drives the pin, whatever its
   pulses value; its only outbound message is one status-out payload_error. *)
C2_MissingIdOnlyPayloadError ==
    (IsPulse(msg) /\ msg.qrcode_id = NoneVal)
    => /\ Idx("confirm") = {}
       /\ Idx("pin") = {}
       /\ Returned => StatusSeq = <<"payload_error">>

(* C3: a pulse command with a qrcode_id and pulses <= 0 never drives the pin
   and always yields a confirm-out "success" for that qrcode_id. *)
C3_ZeroPulsesConfirmed ==
    (IsPulse(msg) /\ msg.qrcode_id # NoneVal
       /\ msg.pulses.t = "int" /\ msg.pulses.v <= 0)
    => /\ Idx("pin") = {}
       /\ Returned =>
            /\ Cardinality(Idx("confirm")) = 1
            /\ \A k \in Idx("confirm") :
                  log[k].id = msg.qrcode_id /\ log[k].status = "success"

(* C4: a reset command always attempts the status-out publish of
   "resetting" before the reboot; the reboot follows whether or not the
   publish succeeded; afterwards no command is processed, no confirm-out is
   published and the pin is not driven. *)
C4_ResetIsTerminal ==
    /\ [](IsReset(msg) =>
            /\ pc \in {"sub_cb", "reset_publish", "reset_reboot", "rebooted"}
            /\ Idx("confirm") = {} /\ Idx("pin") = {}
            /\ pc \in {"reset_reboot", "rebooted"} =>
                  (log[1].ch = "status" /\ StatusSeq = <<"resetting">>)
            /\ pc = "rebooted" => (Len(log) = 2 /\ log[2] = RebootEv)
            /\ pc # "rebooted" => Idx("reboot") = {})
    /\ [][IsReset(msg) => (msg' = msg /\ ncmds' = ncmds /\ pin' = pin)]_vars
    /\ [][pc # "rebooted"]_vars

(* a reset whose "resetting" publish failed has rebooted all the same *)
C4_Witness == IsReset(msg) /\ pc = "rebooted" /\ ~log[1].ok

(* C5: an update whose download returns an empty body never reaches the
   swap (no backup deletion, no rename) and never reboots; the staged file
   is deleted and ota_download_failed goes to status-out. *)
C5_EmptyBodyNeverSwaps ==
    response = "empty" =>
       /\ pc \in {"ota_download_failed", "health", "health_prepare",
                  "health_publish", "poll", "backoff"}
       /\ Idx("reboot") = {}
       /\ \A k \in Idx("fs") : log[k].status \in {"write_staging", "rm_staging"}
       /\ \E k \in Idx("fs") : log[k].status = "rm_staging" /\ log[k].ok
       /\ staging = NoFile
       /\ live = live0
       /\ Returned => StatusSeq = <<"ota_starting", "ota_download_failed">>

(* the handler has returned from an update whose body was empty *)
C5_Witness == response = "empty" /\ pc = "health" /\ IsUpdate(msg)

(* C6: whenever an update attempt ends in the success reboot, the live slot
   holds the downloaded content and, if a live file existed before the
   attempt, the backup slot holds exactly that former content. *)
C6_BackupRotation ==
    (IsUpdate(msg) /\ pc = "rebooted") =>
       /\ fetched > 0
       /\ live = NewContent(fetched - 1)
       /\ live0 # NoFile => backup = live0

(* the staged file was renamed into the live slot *)
RenamedIntoLive == \E k \in Idx("fs") : log[k].status = "mv_staging_live" /\ log[k].ok

(* C7: for an update with a url whose fetch returns a non-empty body and
   whose rename into the live slot succeeds, the status-out messages are
   ota_starting then ota_success_rebooting and nothing else, and the reboot
   comes only after the ota_success_rebooting attempt, with the staged
   content in the live slot. *)
C7_SuccessSequence ==
    (IsUpdate(msg) /\ Truthy(msg.url) /\ response = "body" /\ RenamedIntoLive) =>
       /\ pc \in {"ota_publish_success", "ota_reboot", "rebooted"}
       /\ live = NewContent(fetched - 1)
       /\ staging = NoFile
       /\ StatusSeq = IF pc = "ota_publish_success"
                      THEN <<"ota_starting">>
                      ELSE <<"ota_starting", "ota_success_rebooting">>
       /\ pc # "rebooted" => Idx("reboot") = {}
       /\ pc = "rebooted" =>
             /\ log[Len(log)] = RebootEv
             /\ Cardinality(Idx("reboot")) = 1
             /\ log[Len(log) - 1].status = "ota_success_rebooting"

(* a successful update has rebooted *)
C7_Witness == IsUpdate(msg) /\ RenamedIntoLive /\ pc = "rebooted"

(* C8: a health-out publish is attempted only when a full interval has
   elapsed since the last delivered one (since startup at first); a check
   made before that publishes nothing; a due check whose publish succeeds
   publishes exactly one message and sets the timestamp to that check's
   time. *)
C8_HeartbeatRateLimit ==
    /\ [](/\ last_health_check = last_emit
          /\ Cardinality(Idx("health")) <= 1
          /\ pc \in {"health_prepare", "health_publish"} =>
                (clock - last_emit >= HEALTH_CHECK_INTERVAL /\ Idx("health") = {})
          /\ \A k \in Idx("health") : log[k].ok => last_health_check = clock)
    /\ [][pc = "health" =>
            IF clock' - last_emit >= HEALTH_CHECK_INTERVAL
            THEN pc' = "health_prepare"
            ELSE pc' = "poll" /\ log' = log
                 /\ last_health_check' = last_health_check]_vars
    /\ [][pc = "health_publish" =>
            (Len(log') = Len(log) + 1 /\ log'[Len(log')].ch = "health")]_vars

(* after a delivered heartbeat, a later check within the interval was silent *)
C8_Witness ==
    /\ pc = "poll"
    /\ last_health_check > 0
    /\ clock > last_health_check
    /\ clock - last_health_check < HEALTH_CHECK_INTERVAL
    /\ Idx("health") = {}

(* C9: a due heartbeat that fails, in preparation or in the publish, leaves
   the timestamp unchanged, so the next check is due again at once; the
   timestamp advances only on a successful publish. *)
C9_FailedHeartbeatRetries ==
    /\ [][(pc = "health_prepare" /\ pc' = "poll") =>
            last_health_check' = last_health_check]_vars
    /\ [][(pc = "health_publish" /\ ~log'[Len(log')].ok) =>
            last_health_check' = last_health_check]_vars
    /\ [][last_health_check' # last_health_check =>
            (pc = "health_publish" /\ log'[Len(log')].ch = "health"
                                   /\ log'[Len(log')].ok)]_vars
    /\ [][(hb_failed /\ pc = "health") => pc' = "health_prepare"]_vars

(* the publish is being attempted again after a failed heartbeat *)
C9_Witness == hb_failed /\ pc = "health_publish"

(* C10: a poll that raises a transport error takes the loop out of the
   serving state; a later successful connect + subscribe puts the same
   process back to polling a subscribed session, with no reboot, and
   commands are then dispatched to it. *)
C10_ReconnectResumes ==
    /\ [][(pc = "poll" /\ pc' = "backoff") => (~connected' /\ ~subscribed')]_vars
    /\ [](pc = "backoff" => (~connected /\ msg = NoMsg /\ log = <<>>))
    /\ [][pc = "backoff" =>
            (pc' = "poll" /\ UNCHANGED <<ncmds, pin, files, last_health_check>>)]_vars
    /\ [][reconnects' > reconnects =>
            (pc = "backoff" /\ connected' /\ subscribed')]_vars
    /\ [](pc = "sub_cb" => (connected /\ subscribed))

(* a pulse command was handled and confirmed after a reconnect *)
C10_Witness == reconnects > 0 /\ pc = "health" /\ Idx("confirm") # {}

(* C11: a command-in message whose payload cannot be decoded into an
   envelope (undecodable text, malformed JSON, JSON that is not an object)
   gets exactly one status-out "payload_error" with the error detail, and
   no confirm-out, no actuation, no file operation and no reboot. *)
Undecodable(m) == m.topic = "trigger" /\ m.kind \in {"bad_text", "bad_json", "non_object"}

C11_UndecodableOnlyPayloadError ==
    Undecodable(msg)
    => /\ Idx("confirm") = {} /\ Idx("pin") = {} /\ Idx("fs") = {}
       /\ Idx("reboot") = {}
       /\ pc \notin {"loop_exception", "rebooted", "returned"}
       /\ \A k \in Idx("status") :
             log[k].status = "payload_error" /\ log[k].err # ""
       /\ Returned => Cardinality(Idx("status")) = 1

(* C12: an update command without a url publishes ota_error / missing_url
   to status-out and stops: no ota_starting, no fetch, no change to the
   staging, backup and live files, and no reboot. *)
NoUrl(m) == IsUpdate(m) /\ m.url \in {NoneVal, ""}

C12_MissingUrlStops ==
    /\ [](NoUrl(msg) =>
            /\ pc \in {"sub_cb", "ota_missing_url"} \/ Returned
            /\ response = "" /\ live0 = NoFile
            /\ Idx("fs") = {} /\ Idx("reboot") = {} /\ Idx("pin") = {}
            /\ Idx("confirm") = {}
            /\ \A k \in Idx("status") :
                  log[k].status = "ota_error" /\ log[k].err = "missing_url"
            /\ Returned => Cardinality(Idx("status")) = 1)
    /\ [][NoUrl(msg) => UNCHANGED <<staging, backup, live, fetched>>]_vars

(* the missing_url status was published and the handler returned *)
C12_Witness ==
    /\ NoUrl(msg) /\ pc = "health"
    /\ StatusSeq = <<"ota_error">> /\ log[1].ok

(* C13: command-level errors never stop the supervisor: whatever message
   is dispatched, the process reboots or leaves the polling loop after it
   only for a reset command or for an update whose staged file was renamed
   into the live slot. *)
C13_OnlyResetOrUpdateStops ==
    (msg # NoMsg /\ pc \in {"loop_exception", "rebooted", "returned"})
    => (IsReset(msg) \/ (IsUpdate(msg) /\ RenamedIntoLive))

(* C14: every fatal startup condition (configuration not loaded, WiFi not
   associated, initial connect or subscribe failed) ends in a forced
   reboot, and the process has then never polled, dispatched a message
   or published a heartbeat. *)
StartupEnded == pc \in {"returned", "rebooted"} /\ msg = NoMsg

C14_FatalStartupReboots ==
    StartupEnded
    => /\ pc = "rebooted"
       /\ log = <<RebootEv>>
       /\ ncmds = 0 /\ reconnects = 0 /\ ~subscribed
       /\ clock = 0 /\ last_emit = 0

(* The loop of main() never blocks: `while True' takes its next step as
   long as one is enabled. *)
FairSpec == Spec /\ WF_vars(Next)

(* the loop is back at check_msg() without a subscription: the latest
   reconnect attempt failed in connect() or in subscribe() *)
FailedAttempt == pc = "poll" /\ ~subscribed

(* C15: after a failed reconnect attempt (connect or subscribe raised) the
   full cycle is retried: every failed attempt is eventually followed by
   another backoff and connect + subscribe attempt. *)
C15_FailedReconnectRetried == FailedAttempt ~> (pc = "backoff")

(* a publish on the health, confirm or status topic raised in this iteration *)
PubChannels == {"health", "confirm", "status"}
PublishRaised(l) == \E k \in DOMAIN l : l[k].ch \in PubChannels /\ ~l[k].ok

(* the step appended a publish attempt that raised *)
RaisingPublishStep ==
    /\ Len(log') = Len(log) + 1
    /\ log'[Len(log')].ch \in PubChannels
    /\ ~log'[Len(log')].ok

(* C16 as stated: a transport failure raised by a poll or by a publish
   triggers the reconnect backoff, so the loop starts its next poll
   without passing through the backoff only when no publish of the
   iteration raised. *)
C16_PublishFailureTriggersBackoff ==
    [][(pc' = "poll" /\ pc # "backoff") => ~PublishRaised(log)]_vars

(* C16 amended: a poll that raises goes to the reconnect backoff, which
   returns to polling; a publish that raises is only logged where it
   occurs: the session flags are unchanged, the handler goes on, the
   backoff is entered from the poll only, and a reboot in the iteration
   is the one of a reset, of a completed update or of the undecodable
   payload, never one caused by the transport failure. *)
C16_PublishFailureOnlyLogged ==
    /\ [][(pc = "poll" /\ connected /\ ~connected') => pc' = "backoff"]_vars
    /\ [][pc = "backoff" => pc' = "poll"]_vars
    /\ [][pc' = "backoff" => pc = "poll"]_vars
    /\ [][RaisingPublishStep =>
            /\ UNCHANGED <<connected, subscribed, reconnects>>
            /\ pc' \notin {"backoff", "loop_exception", "rebooted", "returned"}]_vars
    /\ []((msg # NoMsg /\ pc \in {"loop_exception", "rebooted"}) =>
            (IsReset(msg) \/ (IsUpdate(msg) /\ RenamedIntoLive)
               \/ msg.kind = "bad_text"))
    /\ []((PublishRaised(log) /\ pc = "rebooted") =>
            (IsReset(msg) \/ (IsUpdate(msg) /\ RenamedIntoLive)))

(* the confirm publish raised on a live session and the loop is about to
   poll again, still connected and subscribed *)
C16_Witness ==
    /\ pc = "poll" /\ connected /\ subscribed
    /\ \E k \in Idx("confirm") : ~log[k].ok

(* the fetch or the size check of the current update attempt failed *)
DownloadFailed == response \in {"get_raises", "non200", "read_raises", "empty"}

(* C17: when an update attempt fails while downloading or validating, the
   handler returns without a reboot, main.py and main_old.py are as they
   were before the attempt (no step of the attempt touches them), and the
   loop goes on to the next poll, where a later command is dispatched. *)
C17_DownloadFailureResumes ==
    /\ [](DownloadFailed =>
            /\ pc = "ota_download_failed" \/ Returned
            /\ IsUpdate(msg)
            /\ live = live0
            /\ Idx("reboot") = {}
            /\ \A k \in Idx("fs") : log[k].status \in {"write_staging", "rm_staging"}
            /\ Returned => StatusSeq = <<"ota_starting", "ota_download_failed">>)
    /\ [][(pc \in {"ota_start", "ota_download", "ota_download_failed"}) =>
            UNCHANGED <<live, backup, connected, subscribed>>]_vars
    /\ [][pc = "ota_download_failed" => pc' = "health"]_vars
    /\ [][(DownloadFailed /\ Returned) =>
            (pc' \in {"health", "health_prepare", "health_publish", "poll",
                      "backoff", "sub_cb"}
             /\ UNCHANGED <<live, backup>>)]_vars

(* after a failed download the loop is polling a subscribed session with
   the files untouched and can dispatch another command *)
C17_Witness ==
    /\ DownloadFailed /\ pc = "poll"
    /\ connected /\ subscribed /\ ncmds < MaxCmds
    /\ live = BootLive /\ backup = BootBackup

(* the rename of main_next.py into main.py raised in the current attempt *)
FinalizeFailed == IsUpdate(msg) /\ exc = "rename"

(* C18: when the rename of the staged file into the live slot fails after
   the backup steps have run, ota_finalize_failed is published with the
   error detail, ota_success_rebooting is not, the device does not
   reboot, and nothing is rolled back: staging, backup and live stay as
   they were when the rename raised. *)
C18_FinalizeFailureNoRollback ==
    /\ [](FinalizeFailed =>
            /\ pc = "ota_finalize_failed" \/ Returned
            /\ Idx("reboot") = {}
            /\ \A k \in Idx("status") : log[k].status # "ota_success_rebooting"
            /\ \A k \in Idx("status") :
                  log[k].status = "ota_finalize_failed" => log[k].err = "rename"
            /\ Returned => StatusSeq = <<"ota_starting", "ota_finalize_failed">>
            /\ \A k \in Idx("fs") :
                  log[k].status = "mv_staging_live" =>
                     (~log[k].ok /\ \A j \in Idx("fs") : j <= k))
    /\ [][(pc' = "ota_finalize_failed" \/ FinalizeFailed) =>
            UNCHANGED <<staging, backup, live>>]_vars
    /\ [][(pc = "ota_finalize_failed") => pc' = "health"]_vars

(* the live file was moved to the backup slot, the second rename raised,
   and the handler returned with main.py missing and no rollback *)
C18_Witness ==
    /\ FinalizeFailed /\ pc = "health"
    /\ live0 = BootLive /\ live = NoFile /\ backup = BootLive
    /\ staging # NoFile
    /\ StatusSeq = <<"ota_starting", "ota_finalize_failed">>

(* C19: once an update attempt has ended with ota_download_failed, no
   staging file (main_next.py) exists, whatever attempts preceded it. *)
C19_NoStagingAfterDownloadFailed ==
    (Returned /\ IsUpdate(msg) /\ Len(StatusSeq) > 0
       /\ StatusSeq[Len(StatusSeq)] = "ota_download_failed")
    => staging = NoFile

(* control locations of the three handlers of sub_cb *)
ResetPcs == {"reset_publish", "reset_reboot"}
UpdatePcs == {"ota_missing_url", "ota_start", "ota_download", "ota_download_failed",
              "ota_remove_backup", "ota_rename_live", "ota_rename_staging",
              "ota_publish_success", "ota_reboot", "ota_finalize_failed"}
PulsePcs == {"pulse_entry", "pin_acquire", "pulse_on", "pulse_off", "confirm",
             "device_status"}

(* the status values only the reset and update handlers publish *)
CommandStatuses == {"resetting", "ota_error", "ota_starting", "ota_download_failed",
                    "ota_finalize_failed", "ota_success_rebooting"}

(* C20: routing is by the action field, reset first, then update, then
   pulse.  An object whose action is absent or any other value goes to the
   pulse handler: with a qrcode_id and pulses > 0 the pin is acquired, and
   nothing of the reset or update handlers happens.  An object whose action
   is "reset" or "update" never reaches the pulse handler, drives no pin
   and publishes no confirm, whatever qrcode_id and pulses it carries. *)
C20_RoutingByAction ==
    /\ [][(pc = "sub_cb" /\ IsObject(msg)) =>
            pc' \in (CASE msg.action = "reset" -> ResetPcs
                       [] msg.action = "update" -> UpdatePcs
                       [] OTHER -> {"pulse_entry"})]_vars
    /\ [](IsPulse(msg) =>
            /\ pc \notin ResetPcs \cup UpdatePcs \cup {"rebooted", "loop_exception"}
            /\ Idx("fs") = {} /\ Idx("reboot") = {}
            /\ \A k \in Idx("status") : log[k].status \notin CommandStatuses
            /\ (Returned /\ msg.qrcode_id # NoneVal /\ msg.pulses.t = "int"
                  /\ msg.pulses.v > 0)
               => \E k \in Idx("pin") : log[k].status = "acquire"
            /\ (Returned /\ Truthy(msg.qrcode_id) /\ msg.pulses.t = "int"
                  /\ msg.pulses.v > 0 /\ \A k \in Idx("pin") : log[k].ok)
               => /\ CyclesDone = msg.pulses.v
                  /\ \E k \in Idx("confirm") :
                        log[k].id = msg.qrcode_id /\ log[k].status = "success")
    /\ []((IsReset(msg) \/ IsUpdate(msg)) =>
            /\ pc \notin PulsePcs \cup {"payload_error", "processing_error"}
            /\ Idx("pin") = {} /\ Idx("confirm") = {}
            /\ num_pulses = 0
            /\ \A k \in Idx("status") : log[k].status \in CommandStatuses)

(* an envelope with an unknown action was actuated and confirmed as a pulse *)
C20_Witness ==
    /\ IsPulse(msg) /\ msg.action = "other" /\ msg.qrcode_id = "Q1"
    /\ pc = "health" /\ CyclesDone = MaxPulses
    /\ \E k \in Idx("confirm") : log[k].status = "success" /\ log[k].ok

(* the confirm publish of the command in msg raised *)
ConfirmRaised == \E k \in Idx("confirm") : ~log[k].ok

(* C21: when the confirm-out publish of a pulse command raises, the handler
   goes on: the confirm is not attempted again, the status-out publish for
   the command is attempted exactly once, after the confirm, and the
   handler returns to the loop (heartbeat check, next poll). *)
C21_ConfirmFailureNotFatal ==
    /\ [](ConfirmRaised =>
            /\ IsPulse(msg)
            /\ Cardinality(Idx("confirm")) = 1
            /\ pc = "device_status" \/ Returned
            /\ Idx("reboot") = {}
            /\ pc = "device_status" => Idx("status") = {}
            /\ Returned =>
                 /\ Cardinality(Idx("status")) = 1
                 /\ \A c \in Idx("confirm"), s \in Idx("status") : c < s
                 /\ \A s \in Idx("status") :
                       log[s].status \in {"success", "failure"}
                       /\ log[s].id = msg.qrcode_id)
    /\ [][(pc = "confirm") => pc' = "device_status"]_vars
    /\ [][(pc = "device_status") =>
            (pc' = "health" /\ Len(log') = Len(log) + 1
               /\ log'[Len(log')].ch = "status")]_vars

(* the confirm raised on a live session, the status publish went through
   and the loop is about to poll again *)
C21_Witness ==
    /\ ConfirmRaised /\ pc = "poll" /\ connected /\ subscribed
    /\ \E s \in Idx("status") : log[s].ok

(* the pin was driven for the command in msg *)
PinDriven == \E k \in Idx("pin") : log[k].status \in {"on", "off"} /\ log[k].ok

(* C22: no silent actuation: whenever the pin was driven for a command
   and its handler has returned, a confirm-out publish carrying the
   command's qrcode_id was attempted after the last drive of the pin,
   whatever the value of qrcode_id. *)
C22_NoSilentActuation ==
    (Returned /\ PinDriven)
    => \E c \in Idx("confirm") :
          /\ log[c].id = msg.qrcode_id
          /\ \A k \in Idx("pin") : k < c

(* The runs in which main.py exists when the device boots. *)
InitLiveAtBoot == Init /\ live = BootLive

SpecLiveAtBoot == InitLiveAtBoot /\ [][Next]_vars

(* C23 as stated: given main.py at boot, whenever the loop is polling or
   between two polls, main.py exists. *)
C23_LiveWhilePolling == Returned => live # NoFile

(* C23 amended: main.py disappears only by its rename to main_old.py; the
   next step is the rename of main_next.py.  If that rename succeeds
   main.py exists again and the success publish and the reboot follow
   without a return to the loop; if it raises, the handler reports
   ota_finalize_failed and returns to the loop with main.py missing and
   the former main.py in main_old.py. *)
C23_LiveAbsentOnlyAfterFailedSwap ==
    /\ [][(live # NoFile /\ live' = NoFile) =>
            (pc = "ota_rename_live" /\ pc' = "ota_rename_staging"
               /\ backup' = live)]_vars
    /\ [][(pc = "ota_rename_staging") =>
            \/ (pc' = "ota_publish_success" /\ live' # NoFile)
            \/ (pc' = "ota_finalize_failed" /\ live' = live)]_vars
    /\ [](pc \in {"ota_publish_success", "ota_reboot"} => live # NoFile)
    /\ [][(pc = "ota_publish_success") => pc' = "ota_reboot"]_vars
    /\ [][(pc = "ota_reboot") => pc' = "rebooted"]_vars
    /\ []((Returned /\ IsUpdate(msg) /\ live0 # NoFile /\ live = NoFile) =>
            /\ exc = "rename" /\ backup = live0
            /\ StatusSeq = <<"ota_starting", "ota_finalize_failed">>)

(* the loop is about to poll with main.py missing and its former content
   in main_old.py *)
C23_Witness ==
    /\ pc = "poll" /\ connected /\ subscribed
    /\ IsUpdate(msg) /\ live0 = BootLive /\ live = NoFile /\ backup = BootLive

(* C24: for a pulse command whose handler reached the acknowledgement and
   attempted the confirm-out publish, exactly one status-out publish is
   attempted, after the confirm, and it agrees with it: last_action_status
   is the confirm status, last_qrcode_id the command's qrcode_id,
   pulses_requested the requested count, pulses_generated the requested
   count on success and 0 on failure, and error is non-empty only on
   failure. *)
C24_StatusMatchesConfirm ==
    (Returned /\ IsPulse(msg) /\ Idx("confirm") # {})
    => /\ Cardinality(Idx("confirm")) = 1
       /\ Cardinality(Idx("status")) = 1
       /\ \A c \in Idx("confirm"), s \in Idx("status") :
             /\ c < s
             /\ log[s].status = log[c].status
             /\ log[s].status \in {"success", "failure"}
             /\ log[s].id = msg.qrcode_id /\ log[c].id = msg.qrcode_id
             /\ ~log[s].reqnone /\ log[s].req = msg.pulses.v
             /\ log[s].gen = (IF log[s].status = "success" THEN msg.pulses.v ELSE 0)
             /\ log[s].err # "" => log[s].status = "failure"
             /\ (log[s].status = "failure" /\ DriveRaised) => log[s].err # ""
             /\ log[s].status = "success" <=> (~DriveRaised /\ CyclesDone = IF msg.pulses.v > 0 THEN msg.pulses.v ELSE 0)

(* one of two cycles completed, the second raised: failure is reported
   with pulses_generated 0 *)
C24_Witness ==
    /\ Returned /\ IsPulse(msg) /\ msg.pulses.v = 2
    /\ CyclesDone = 1 /\ DriveRaised
    /\ \E c \in Idx("confirm") : log[c].status = "failure"
    /\ \E s \in Idx("status") : log[s].gen = 0 /\ log[s].err # "" /\ log[s].ok

(* control locations inside sub_cb and the handlers it calls *)
HandlerPcs == {"sub_cb", "payload_error", "processing_error"}
              \cup ResetPcs \cup UpdatePcs \cup PulsePcs

(* C25: at most one command is in flight.  The message slot is filled by
   a poll only, one message per poll, and the handler starts with an
   empty record; while a handler runs no poll is made and no other
   message is taken, so handlers never nest; an update attempt starts
   only from the dispatch of its own command, never inside another
   attempt. *)
C25_OneCommandInFlight ==
    /\ [][(msg' # msg) => pc = "poll"]_vars
    /\ [][(ncmds' # ncmds) =>
            (pc = "poll" /\ pc' = "sub_cb" /\ ncmds' = ncmds + 1
               /\ msg' \in Inbound /\ log' = <<>>)]_vars
    /\ [][(pc \in HandlerPcs) =>
            (msg' = msg /\ ncmds' = ncmds /\ pc' \notin {"poll", "sub_cb", "backoff"})]_vars
    /\ [][(pc' = "sub_cb") => pc = "poll"]_vars
    /\ [][(pc' = "ota_start") => pc = "sub_cb"]_vars
    /\ [][(pc' = "pulse_entry") => pc = "sub_cb"]_vars
    /\ [][(live0' # live0) => pc \in {"ota_start", "poll"}]_vars
    /\ [](pc \in HandlerPcs => (msg # NoMsg /\ ncmds > 0))
    /\ [](pc \in UpdatePcs => IsUpdate(msg))
    /\ [](pc \in PulsePcs => IsPulse(msg))

(* the second delivered command is being actuated after the first one,
   an update, was handled to its end *)
C25_Witness ==
    /\ ncmds = 2 /\ pc = "pulse_off" /\ IsPulse(msg)
    /\ fetched = 1 /\ staging # NoFile

(* C26: serving implies subscribed: whenever a poll of an established
   session has returned without a transport error and the tick goes on to
   the heartbeat, the session holds a subscription to the command-in
   topic. *)
C26_ServingImpliesSubscribed ==
    (pc \in {"health", "health_prepare", "health_publish"} /\ connected) => subscribed

TerminalStatuses == {"ota_download_failed", "ota_finalize_failed", "ota_success_rebooting"}

(* the command in msg is an update that carries a url *)
UpdateWithUrl == IsUpdate(msg) /\ Truthy(msg.url)

(* C27: an update attempt with a url first attempts the ota_starting
   publish and goes on to the download whether or not it raised; by the
   time the attempt has ended exactly one terminal status has been
   attempted after it; a reboot in an update follows the
   ota_success_rebooting attempt and no failure status. *)
C27_UpdateStatusProtocol ==
    /\ [][(pc = "ota_start") =>
            (pc' = "ota_download" /\ log' = Append(log, log'[Len(log')])
               /\ log'[Len(log')].ch = "status"
               /\ log'[Len(log')].status = "ota_starting")]_vars
    /\ [](UpdateWithUrl =>
            /\ pc = "sub_cb" => StatusSeq = <<>>
            /\ pc = "ota_start" => StatusSeq = <<>>
            /\ (pc \in UpdatePcs \ {"ota_start"}) =>
                  (Len(StatusSeq) \in {1, 2} /\ StatusSeq[1] = "ota_starting")
            /\ (pc \in {"ota_download", "ota_download_failed", "ota_remove_backup",
                        "ota_rename_live", "ota_rename_staging",
                        "ota_publish_success", "ota_finalize_failed"}) =>
                  StatusSeq = <<"ota_starting">>
            /\ (Returned \/ pc \in {"ota_reboot", "rebooted"}) =>
                  /\ Len(StatusSeq) = 2
                  /\ StatusSeq[1] = "ota_starting"
                  /\ StatusSeq[2] \in TerminalStatuses
            /\ Returned => (StatusSeq[2] # "ota_success_rebooting" /\ Idx("reboot") = {})
            /\ pc = "rebooted" =>
                  /\ StatusSeq[2] = "ota_success_rebooting"
                  /\ log[Len(log)] = RebootEv
                  /\ Cardinality(Idx("reboot")) = 1)

(* the ota_starting publish raised, yet the download and the swap went
   through and the device rebooted after a delivered success status *)
C27_Witness ==
    /\ UpdateWithUrl /\ pc = "rebooted"
    /\ ~log[1].ok /\ log[1].status = "ota_starting"
    /\ \E k \in Idx("status") : log[k].status = "ota_success_rebooting" /\ log[k].ok

(* C28: given main.py at boot, across any sequence of update attempts and
   any combination of download, delete and rename failures, at least one
   of main.py and main_old.py exists. *)
C28_LiveOrBackupExists == live # NoFile \/ backup # NoFile

(* C29: whenever a pulse handler has returned, after a complete sequence
   or after a drive error in mid-sequence, the pin is off; the pin is on
   only in the on-phase of a cycle of the command being handled. *)
C29_PinOffOutsideOnPhase ==
    /\ (Returned /\ IsPulse(msg)) => pin = "off"
    /\ pin = "on" => (pc = "pulse_off" /\ IsPulse(msg))

(* C30: a message delivered on a topic other than the command-in topic has
   no effect: its handling publishes nothing, drives no pin, touches no
   file and does not reboot; sub_cb returns to the loop with an empty
   record. *)
C30_OtherTopicNoEffect ==
    (msg # NoMsg /\ msg.topic # "trigger")
    => /\ pc = "sub_cb" \/ Returned
       /\ Idx("confirm") = {} /\ Idx("status") = {}
       /\ Idx("pin") = {} /\ Idx("fs") = {} /\ Idx("reboot") = {}
       /\ pc \in {"sub_cb", "health"} => log = <<>>

(* the events of a command handler: publishes on confirm and status, pin
   drives, file operations *)
IsHandlerEv(e) == e.ch \in {"confirm", "status", "pin", "fs"}

(* C31: within one iteration the heartbeat check runs after the poll and
   the handler it dispatched have returned, and only when the poll did
   not raise: every health-out publish comes after all outbound messages
   of the command, none is attempted while a handler runs, none in an
   iteration whose poll raised, none during the reconnect backoff. *)
C31_HeartbeatAfterHandler ==
    /\ [](\A h \in Idx("health") : \A k \in DOMAIN log :
             IsHandlerEv(log[k]) => k < h)
    /\ []((pc \in HandlerPcs \cup {"backoff", "loop_exception"}) => Idx("health") = {})
    /\ [][(Len(log') > Len(log) /\ log'[Len(log')].ch = "health") =>
            (pc = "health_publish" /\ pc' = "poll")]_vars
    /\ [][(pc' = "health") => (pc \in HandlerPcs \cup {"poll"})]_vars
    /\ [][(pc = "poll" /\ pc' = "health") =>
            (connected /\ UNCHANGED <<connected, subscribed>>)]_vars
    /\ [][(pc = "poll" /\ ~connected') => pc' = "backoff"]_vars
    /\ [][(pc = "backoff") => (pc' = "poll" /\ log' = log)]_vars
    /\ [][(pc' \in {"health_prepare", "health_publish"}) =>
            (pc \in {"health", "health_prepare"})]_vars

(* a pulse command was confirmed and reported, and the heartbeat of the
   same iteration was published after both *)
C31_Witness ==
    /\ pc = "poll" /\ IsPulse(msg)
    /\ \E c \in Idx("confirm"), s \in Idx("status"), h \in Idx("health") :
          c < s /\ s < h /\ log[h].ok

----------------------------------------------------------------------------
(* src/main.template.py: the template variant.  Its publish_health_status,
   indicate_reset, reset branch, pulse loop, status record and main loop
   are the same statements as in main.py, so the actions above model them
   too; it has no load_config and no update branch, and the except
   clauses of its sub_cb do not publish but fall through to the
   acknowledgement. *)

(* main(): last_health_check = time.time(); then indicate_reset() *)
TplInit ==
    /\ pc = "indicate_reset"
    /\ connected = FALSE
    /\ subscribed = FALSE
    /\ clock = 0
    /\ last_health_check = 0
    /\ current_time = 0
    /\ hb_failed = FALSE
    /\ msg = NoMsg
    /\ num_pulses = 0
    /\ action_status = "failure"
    /\ error_detail = ""
    /\ i = 0
    /\ pin = "off"
    /\ staging = NoFile
    /\ backup = NoFile
    /\ live = BootLive
    /\ live0 = NoFile
    /\ fetched = 0
    /\ ncmds = 0
    /\ reconnects = 0
    /\ exc = ""
    /\ response = ""
    /\ last_emit = 0
    /\ log = <<>>

(* msg.decode() outside the try; topic test; ujson.loads;
   payload_data.get("action") == "reset" *)
TplSubCb ==
    /\ pc = "sub_cb"
    /\ IF msg.kind = "bad_text"
       THEN /\ pc' = "loop_exception"          \* UnicodeError leaves check_msg
            /\ UNCHANGED exc
       ELSE IF msg.topic # "trigger"
       THEN /\ pc' = "health"
            /\ UNCHANGED exc
       ELSE IF msg.kind = "bad_json"
       THEN /\ pc' = "value_error"             \* ValueError from ujson.loads
            /\ exc' = "json"
       ELSE IF msg.kind = "non_object"
       THEN /\ pc' = "general_error"           \* no .get on a non-dict
            /\ exc' = "no_get"
       ELSE /\ pc' = IF msg.action = "reset" THEN "reset_publish" ELSE "pulse_entry"
            /\ UNCHANGED exc
    /\ UNCHANGED <<session, heartbeat, msg, num_pulses, action_status,
                   error_detail, i, response, pin, files, ncmds, log>>

(* num_pulses = int(...); qrcode_id = ...; None check; num_pulses > 0 test *)
TplPulseEntry ==
    /\ pc = "pulse_entry"
    /\ LET n == IntOf(msg.pulses) IN
       IF ~n.ok
       THEN /\ pc' = IF n.exc = "ValueError" THEN "value_error" ELSE "general_error"
            /\ exc' = "int"
            /\ UNCHANGED <<num_pulses, action_status, error_detail>>
       ELSE /\ num_pulses' = n.v
            /\ IF msg.qrcode_id = NoneVal
               THEN /\ pc' = "value_error"
                    /\ exc' = "missing_qrcode_id"
                    /\ action_status' = "failure"
                    /\ error_detail' = ""
               ELSE IF n.v > 0
               THEN /\ pc' = "pin_acquire"
                    /\ action_status' = "failure"
                    /\ error_detail' = ""
                    /\ UNCHANGED exc
               ELSE /\ pc' = "confirm"
                    /\ action_status' = "success"
                    /\ error_detail' = "No pulses requested"
                    /\ UNCHANGED exc
    /\ UNCHANGED <<session, heartbeat, msg, i, response, pin, files, ncmds, log>>

(* flash = machine.Pin(FLASH_PIN, machine.Pin.OUT), inside the outer try *)
TplPinAcquire ==
    /\ pc = "pin_acquire"
    /\ \E r \in {"ok", "ValueError", "Exception"} :
          /\ log' = Append(log, PinEv("acquire", r = "ok"))
          /\ pc' = CASE r = "ok" -> "pulse_on"
                     [] r = "ValueError" -> "value_error"
                     [] OTHER -> "general_error"
          /\ exc' = IF r = "ok" THEN exc ELSE "pin"
    /\ i' = 0
    /\ UNCHANGED <<session, heartbeat, msg, num_pulses, action_status,
                   error_detail, response, pin, files, ncmds>>

(* except ValueError: action_status = "failure"; error_detail = ...; no
   publish, control falls through to the acknowledgement *)
TplValueError ==
    /\ pc = "value_error"
    /\ action_status' = "failure"
    /\ error_detail' = "Could not parse payload or missing field"
    /\ pc' = "confirm"
    /\ UNCHANGED <<session, heartbeat, msg, num_pulses, i, exc, response, pin,
                   files, ncmds, log>>

(* except Exception: action_status = "failure"; error_detail = ... *)
TplGeneralError ==
    /\ pc = "general_error"
    /\ action_status' = "failure"
    /\ error_detail' = "General error processing message"
    /\ pc' = "confirm"
    /\ UNCHANGED <<session, heartbeat, msg, num_pulses, i, exc, response, pin,
                   files, ncmds, log>>

(* the local qrcode_id has been assigned: the exception, if any, was
   raised after `qrcode_id = payload_data.get('qrcode_id')' *)
TplQrcodeBound == exc \notin {"json", "no_get", "int"}

(* if qrcode_id: publish the confirmation; the test is outside every try,
   so an unassigned qrcode_id raises NameError out of sub_cb *)
TplConfirm ==
    /\ pc = "confirm"
    /\ IF ~TplQrcodeBound
       THEN log' = log /\ pc' = "loop_exception"
       ELSE /\ IF Truthy(msg.qrcode_id)
               THEN \E ok \in PubOutcomes :
                       log' = Append(log, PubEv("confirm", action_status,
                                                msg.qrcode_id, ok))
               ELSE log' = log
            /\ pc' = "device_status"
    /\ UNCHANGED <<session, heartbeat, msg, locals, pin, files, ncmds>>

NextTemplate ==
    \/ IndicateReset \/ ConnectWifi \/ InitialConnect
    \/ Poll \/ Reconnect \/ LoopCrash
    \/ HealthCheck \/ HealthPrepare \/ HealthPublish
    \/ TplSubCb \/ ResetPublish \/ ResetReboot
    \/ TplPulseEntry \/ TplPinAcquire \/ PulseOn \/ PulseOff
    \/ TplValueError \/ TplGeneralError \/ TplConfirm \/ DeviceStatus

SpecTemplate == TplInit /\ [][NextTemplate]_vars

----------------------------------------------------------------------------
(* a command-in payload that fails JSON decoding, or a decoded object that
   is not a reset and whose pulses value int() rejects *)
Malformed(m) ==
    /\ m.topic = "trigger"
    /\ \/ m.kind = "bad_json"
       \/ m.kind = "object" /\ m.action # "reset" /\ ~IntOf(m.pulses).ok

(* C33: in the template variant, handling a malformed command-in payload
   completes inside the handler: the supervisor never sees an error and
   never reboots for it, and once the handler has returned exactly one
   status-out publish was attempted, reporting a failure, with no
   confirm-out unless a qrcode_id was extracted. *)
C33_TemplateMalformedHandledInside ==
    Malformed(msg) =>
        /\ pc \notin {"loop_exception", "rebooted"}
        /\ Idx("reboot") = {}
        /\ pc = "health" =>
              /\ StatusSeq = <<"failure">>
              /\ Idx("confirm") # {} => (msg.kind = "object" /\ Truthy(msg.qrcode_id))

----------------------------------------------------------------------------
(* C32: the handler of main.py as a function of the message and of the
   outcomes of the calls it makes. *)

(* the commands the comparison is about: a reset, or a pulse command with
   a non-empty qrcode_id and integer pulses *)
Comparable(m) ==
    \/ IsReset(m)
    \/ IsPulse(m) /\ Truthy(m.qrcode_id) /\ IntOf(m.pulses).ok

IsDriveEv(e) == e.ch = "pin" /\ e.status \in {"on", "off"}

(* the outcomes the pin gave to the handler that has just run: the
   outcome of machine.Pin and those of the successive drive calls *)
AcquireOutcome ==
    IF \E k \in Idx("pin") : log[k].status = "acquire" /\ ~log[k].ok
    THEN (IF pc \in {"value_error", "payload_error"}
             \/ error_detail = "Could not parse payload or missing field"
             \/ \E k \in Idx("status") : log[k].status = "payload_error"
          THEN "ValueError" ELSE "Exception")
    ELSE "ok"

DriveOutcomes ==
    LET d == SelectSeq(log, IsDriveEv) IN [k \in DOMAIN d |-> d[k].ok]

(* what an outside observer sees of a run of events: publish outcomes are
   given by the broker, not produced by the handler *)
Observed(l) ==
    [k \in DOMAIN l |-> IF l[k].ch \in PubChannels
                        THEN [l[k] EXCEPT !.ok = TRUE] ELSE l[k]]

(* the drive calls of main.py's pulse loop for n cycles under the drive
   outcomes f: on, off, on, ... up to the first call that raises *)
MainDrives(n, f) ==
    LET bad   == {k \in 1..(2 * n) : k <= Len(f) /\ ~f[k]}
        last  == IF bad = {} THEN 2 * n
                 ELSE CHOOSE k \in bad : \A j \in bad : k <= j
    IN [k \in 1..last |->
          PinEv(IF k % 2 = 1 THEN "on" ELSE "off",
                IF k <= Len(f) THEN f[k] ELSE TRUE)]

(* main.py, sub_cb: the events of handling the comparable command m when
   machine.Pin gives acq and the drive calls give f *)
MainHandler(m, acq, f) ==
    IF IsReset(m)
    THEN <<PubEv("status", "resetting", NoneVal, TRUE), RebootEv>>
    ELSE
    LET n == IntOf(m.pulses).v
        Report(st, det) ==
            <<PubEv("confirm", st, m.qrcode_id, TRUE),
              Ev("status", st, m.qrcode_id, TRUE, n, FALSE,
                 IF st = "success" THEN n ELSE 0,
                 IF st = "failure" THEN det ELSE "")>>
    IN IF n <= 0
       THEN Report("success", "No pulses requested")
       ELSE IF acq # "ok"
       THEN <<PinEv("acquire", FALSE),
              Ev("status", IF acq = "ValueError" THEN "payload_error"
                                                 ELSE "processing_error",
                 NoneVal, TRUE, 0, TRUE, 0, "pin")>>
       ELSE LET d == MainDrives(n, f)
                done == Len(d) = 2 * n /\ \A k \in DOMAIN d : d[k].ok
            IN <<PinEv("acquire", TRUE)>> \o d
               \o (IF done THEN Report("success", "")
                           ELSE Report("failure", "Error during pulse generation"))

(* the handler of the command in msg has just finished *)
HandlerEnded == pc \in {"health", "rebooted"}

(* MainHandler is the handler of main.py: under Spec the events of every
   finished comparable command are the ones it computes *)
MainHandlerIsMain ==
    (HandlerEnded /\ Comparable(msg)) =>
        Observed(log) = MainHandler(msg, AcquireOutcome, DriveOutcomes)

(* C32: the template variant and main.py are observationally equivalent
   on reset commands and on pulse commands with a non-empty qrcode_id and
   integer pulses: under the same pin and publish outcomes the template's
   handler produces the pin drives, the confirm-out and status-out
   messages and the reboot decision that main.py's handler produces. *)
C32_TemplateEquivalentToMain ==
    (HandlerEnded /\ Comparable(msg)) =>
        Observed(log) = MainHandler(msg, AcquireOutcome, DriveOutcomes)

====
